---- MODULE Spec2Model ----
(***************************************************************************)
(* Reflexion agent: the draft -> execute_tools -> revisor -> event_loop    *)
(* loop of reflexion_agent.py and ui_app.py, the search executor of        *)
(* execute_tools.py with its process-wide SEEN_URLS set, and the scorer    *)
(* evaluate_answer.                                                        *)
(*                                                                         *)
(* Texts are sequences of one-character strings.  Scores are integers in   *)
(* hundredths (30.0 is 3000), the precision evaluate_answer rounds to.     *)
(***************************************************************************)
EXTENDS Integers, Sequences, FiniteSets, TLC

(***************************************************************************)
(* Bounds of the model.                                                    *)
(***************************************************************************)
\* largest value the "Max refinement iterations" setting takes in the model
\* (the slider of ui_app.py:139 ranges over 0..6)
MaxIter == 1
\* number of runs (app.invoke calls) of one process
MaxRuns == 2

(***************************************************************************)
(* Text helpers: str.strip() and str.strip(chars) of Python.               *)
(***************************************************************************)
Whitespace == {" "}

RECURSIVE LStrip(_, _)
LStrip(s, chars) ==
    IF s # <<>> /\ Head(s) \in chars THEN LStrip(Tail(s), chars) ELSE s

RECURSIVE RStrip(_, _)
RStrip(s, chars) ==
    IF s # <<>> /\ s[Len(s)] \in chars
    THEN RStrip(SubSeq(s, 1, Len(s) - 1), chars)
    ELSE s

strip(s, chars) == RStrip(LStrip(s, chars), chars)

\* execute_tools.py:17  q.strip().strip(",").strip('"').strip("'")
\* (queries are texts in the model, so the str(q) coercion never applies)
_clean_query(q) ==
    strip(strip(strip(strip(q, Whitespace), {","}), {"\""}), {"'"})

(***************************************************************************)
(* Messages.  An AIMessage carries tool_calls, each {name, id, args}; args *)
(* is a record that may lack any of answer / references / search_queries   *)
(* (dict.get).  A ToolMessage carries the JSON text of the query_results   *)
(* mapping and the call id.  A JSON object is kept as the ordered sequence *)
(* of its members, the order json.dumps writes and json.loads restores.    *)
(***************************************************************************)
RecognizedNames == {"AnswerQuestion", "ReviseAnswer"}

NoContent == [kind |-> "text", members |-> <<>>]

HumanMessage ==
    [type |-> "human", tool_calls |-> <<>>, content |-> NoContent, tool_call_id |-> "-"]

AIMessage(tool_calls) ==
    [type |-> "ai", tool_calls |-> tool_calls, content |-> NoContent, tool_call_id |-> "-"]

\* json.dumps of a dict (execute_tools.py:69)
json_dumps(query_results) == [kind |-> "object", members |-> query_results]

ToolMessage(content, call_id) ==
    [type |-> "tool", tool_calls |-> <<>>, content |-> content, tool_call_id |-> call_id]

\* args.get("search_queries", []) or []
GetSearchQueries(args) ==
    IF "search_queries" \in DOMAIN args THEN args.search_queries ELSE <<>>

(***************************************************************************)
(* The search collaborator (tavily_tool.invoke) is opaque: one call either *)
(* raises or returns a list of items.  An item is a mapping with a url     *)
(* text (empty when the key is missing or None), or something item.get     *)
(* fails on (ok = FALSE), which raises inside the try block.               *)
(***************************************************************************)
ErrorRecord == [error |-> TRUE, results |-> <<>>]
ResultList(compact) == [error |-> FALSE, results |-> compact]

\* execute_tools.py:53, negated: the url is kept
AcceptNoDedup(url, seen) == url # <<>>
Accept(url, seen) == url # <<>> /\ url \notin seen

\* execute_tools.py:51-62: the projection loop over the raw results
RECURSIVE ProjectItems(_, _, _, _)
ProjectItems(raw, i, seen, compact) ==
    IF i > Len(raw) THEN [raised |-> FALSE, seen |-> seen, compact |-> compact]
    ELSE IF ~raw[i].ok THEN [raised |-> TRUE, seen |-> seen, compact |-> compact]
    ELSE LET url == strip(raw[i].url, Whitespace) IN
         IF Accept(url, seen)
         THEN ProjectItems(raw, i + 1, seen \cup {url}, Append(compact, [url |-> url]))
         ELSE ProjectItems(raw, i + 1, seen, compact)

\* the projection stored whole
NoTruncation(compact) == compact

\* compact[:3]
Top3(compact) == SubSeq(compact, 1, IF Len(compact) < 3 THEN Len(compact) ELSE 3)

\* execute_tools.py:47-65 with the try block removed: a failure propagates
SearchOneUncaught(resp, seen) ==
    IF resp.raises THEN [raised |-> TRUE, value |-> ErrorRecord, seen |-> seen]
    ELSE LET p == ProjectItems(resp.items, 1, seen, <<>>) IN
         [raised |-> p.raised, value |-> ResultList(Top3(p.compact)), seen |-> p.seen]

\* execute_tools.py:47-65: one query, searched and projected inside try/except
SearchOne(resp, seen) ==
    IF resp.raises THEN [raised |-> FALSE, value |-> ErrorRecord, seen |-> seen]
    ELSE LET p == ProjectItems(resp.items, 1, seen, <<>>) IN
         IF p.raised
         THEN [raised |-> FALSE, value |-> ErrorRecord, seen |-> p.seen]
         ELSE [raised |-> FALSE, value |-> ResultList(Top3(p.compact)), seen |-> p.seen]

\* query_results[query] = value on an insertion-ordered dict
DictSet(d, key, value) ==
    IF \E i \in 1..Len(d) : d[i].key = key
    THEN [i \in 1..Len(d) |-> IF d[i].key = key THEN [key |-> key, value |-> value] ELSE d[i]]
    ELSE Append(d, [key |-> key, value |-> value])

DictKeys(d) == [i \in 1..Len(d) |-> d[i].key]

\* execute_tools.py:43-65: the loop over search_queries of one tool call;
\* resps[k] is what the collaborator does on its k-th call of this pass
RECURSIVE QueryLoop(_, _, _, _, _, _)
QueryLoop(queries, i, resps, k, seen, d) ==
    IF i > Len(queries) THEN [raised |-> FALSE, d |-> d, seen |-> seen, k |-> k]
    ELSE LET query == _clean_query(queries[i]) IN
         IF query = <<>> THEN QueryLoop(queries, i + 1, resps, k, seen, d)
         ELSE LET r == SearchOne(resps[k], seen) IN
              IF r.raised THEN [raised |-> TRUE, d |-> d, seen |-> r.seen, k |-> k + 1]
              ELSE QueryLoop(queries, i + 1, resps, k + 1, r.seen, DictSet(d, query, r.value))

\* the loop that ends at the first unrecognized name instead of passing it
RECURSIVE ToolCallLoopBreak(_, _, _, _, _, _)
ToolCallLoopBreak(tool_calls, j, resps, k, seen, tool_messages) ==
    IF j > Len(tool_calls) \/ tool_calls[j].name \notin RecognizedNames
    THEN [raised |-> FALSE, messages |-> tool_messages, seen |-> seen]
    ELSE LET q == QueryLoop(GetSearchQueries(tool_calls[j].args), 1, resps, k, seen, <<>>) IN
         IF q.raised THEN [raised |-> TRUE, messages |-> <<>>, seen |-> q.seen]
         ELSE ToolCallLoopBreak(tool_calls, j + 1, resps, q.k, q.seen,
                                Append(tool_messages,
                                       ToolMessage(json_dumps(q.d), tool_calls[j].id)))

\* execute_tools.py:33-72: the loop over the tool calls of the last message
RECURSIVE ToolCallLoop(_, _, _, _, _, _)
ToolCallLoop(tool_calls, j, resps, k, seen, tool_messages) ==
    IF j > Len(tool_calls)
    THEN [raised |-> FALSE, messages |-> tool_messages, seen |-> seen]
    ELSE IF tool_calls[j].name \notin RecognizedNames
    THEN ToolCallLoop(tool_calls, j + 1, resps, k, seen, tool_messages)
    ELSE LET q == QueryLoop(GetSearchQueries(tool_calls[j].args), 1, resps, k, seen, <<>>) IN
         IF q.raised THEN [raised |-> TRUE, messages |-> <<>>, seen |-> q.seen]
         ELSE ToolCallLoop(tool_calls, j + 1, resps, q.k, q.seen,
                           Append(tool_messages,
                                  ToolMessage(json_dumps(q.d), tool_calls[j].id)))

\* execute_tools.py:19-74
execute_tools(state, resps, seen) ==
    IF state = <<>> THEN [raised |-> FALSE, messages |-> <<>>, seen |-> seen]
    ELSE LET last == state[Len(state)] IN
         IF last.type # "ai" \/ last.tool_calls = <<>>
         THEN [raised |-> FALSE, messages |-> <<>>, seen |-> seen]
         ELSE ToolCallLoop(last.tool_calls, 1, resps, 1, seen, <<>>)

\* number of collaborator calls execute_tools makes on the message last
RECURSIVE CountSearches(_, _)
CountSearches(tool_calls, j) ==
    IF j > Len(tool_calls) THEN 0
    ELSE (IF tool_calls[j].name \in RecognizedNames
          THEN Cardinality({i \in 1..Len(GetSearchQueries(tool_calls[j].args)) :
                              _clean_query(GetSearchQueries(tool_calls[j].args)[i]) # <<>>})
          ELSE 0) + CountSearches(tool_calls, j + 1)

(***************************************************************************)
(* Answers.  An answer text is kept by what the scorer reads of it: whether*)
(* it is non-empty, len(ans.split()) and len(re.findall(r"\[\d+\]", ans)). *)
(* NoneAnswer is Python's None (args.get("answer") with no such key).      *)
(***************************************************************************)
NoneAnswer == [tag |-> "none", nonempty |-> FALSE, w |-> 0, c |-> 0]
EmptyAnswer == [tag |-> "str", nonempty |-> FALSE, w |-> 0, c |-> 0]
Text(w, c) == [tag |-> "str", nonempty |-> TRUE, w |-> w, c |-> c]

\* Python truthiness of an answer: "if ans" / "if not ans"
Truthy(ans) == ans.tag = "str" /\ ans.nonempty

Abs(x) == IF x < 0 THEN -x ELSE x
Min(a, b) == IF a < b THEN a ELSE b
Max(a, b) == IF a > b THEN a ELSE b

\* round(score, 2): from thousandths to hundredths, to nearest
Round2(x) == IF x >= 0 THEN (x + 5) \div 10 ELSE -((5 - x) \div 10)

\* the scorer without the cap on the citation term
evaluate_answer_uncapped(ans, refs, queries_used) ==
    IF ~Truthy(ans) THEN 0
    ELSE Round2(  Max(0, 30000 - Abs(ans.w - 250) * 100)
                + (IF refs # <<>> THEN Min(20000, 5000 * Len(refs)) ELSE 0)
                + ans.c * 4000
                + (IF queries_used # <<>>
                   THEN Min(30000, 10000 * Min(3, Len(queries_used))) ELSE 0))

\* reflexion_agent.py:32-54 and ui_app.py:36-48 (the same text); in thousandths
\* before rounding, in hundredths after
evaluate_answer(ans, refs, queries_used) ==
    IF ~Truthy(ans) THEN 0
    ELSE Round2(  Max(0, 30000 - Abs(ans.w - 250) * 100)
                + (IF refs # <<>> THEN Min(20000, 5000 * Len(refs)) ELSE 0)
                + Min(20000, ans.c * 4000)
                + (IF queries_used # <<>>
                   THEN Min(30000, 10000 * Min(3, Len(queries_used))) ELSE 0))

\* "mckinsey.com" in r or "mailchimp.com" in r
Authoritative == {"mckinsey.com/ai", "mailchimp.com/ai"}

\* reflexion_agent.py:141-147: the definition that replaces the first one
\* once the module body has run to its end
evaluate_answer_2(ans, refs, queries_used) ==
    Round2(IF refs # <<>> /\ ~(\E i \in 1..Len(refs) : refs[i] \in Authoritative)
           THEN -10000 ELSE 0)

\* the function the name evaluate_answer is bound to when event_loop runs
Scorer(binding, ans, refs, queries_used) ==
    IF binding = "second" THEN evaluate_answer_2(ans, refs, queries_used)
    ELSE evaluate_answer(ans, refs, queries_used)

(***************************************************************************)
(* Extraction (reflexion_agent.py:56-80, ui_app.py:50-72).                 *)
(***************************************************************************)
GetAnswer(args) == IF "answer" \in DOMAIN args THEN args.answer ELSE NoneAnswer
GetReferences(args) == IF "references" \in DOMAIN args THEN args.references ELSE <<>>

\* for tc in reversed(tool_calls): if tc.get("name") in names
RECURSIVE LastRecognized(_, _)
LastRecognized(tool_calls, j) ==
    IF j = 0 THEN 0
    ELSE IF tool_calls[j].name \in RecognizedNames THEN j
    ELSE LastRecognized(tool_calls, j - 1)

\* the scan that returns at the latest message with invocations, whatever
\* their names
RECURSIVE ScanAnswerNoSkip(_, _)
ScanAnswerNoSkip(messages, i) ==
    IF i = 0 THEN [ans |-> NoneAnswer, refs |-> <<>>]
    ELSE IF messages[i].tool_calls = <<>> THEN ScanAnswerNoSkip(messages, i - 1)
    ELSE LET j == LastRecognized(messages[i].tool_calls, Len(messages[i].tool_calls)) IN
         IF j = 0 THEN [ans |-> NoneAnswer, refs |-> <<>>]
         ELSE [ans |-> GetAnswer(messages[i].tool_calls[j].args),
               refs |-> GetReferences(messages[i].tool_calls[j].args)]

RECURSIVE ScanAnswer(_, _)
ScanAnswer(messages, i) ==
    IF i = 0 THEN [ans |-> NoneAnswer, refs |-> <<>>]
    ELSE LET j == LastRecognized(messages[i].tool_calls, Len(messages[i].tool_calls)) IN
         IF j = 0 THEN ScanAnswer(messages, i - 1)
         ELSE [ans |-> GetAnswer(messages[i].tool_calls[j].args),
               refs |-> GetReferences(messages[i].tool_calls[j].args)]

extract_last_tool_answer(messages) == ScanAnswer(messages, Len(messages))

\* json.loads(msg.content) then list(data.keys()); anything else raises
json_loads_keys(content) ==
    IF content.kind = "object" THEN DictKeys(content.members) ELSE <<>>

\* the keys of every ToolMessage of the history, oldest first
RECURSIVE ScanQueriesAll(_, _)
ScanQueriesAll(messages, i) ==
    IF i = 0 THEN <<>>
    ELSE IF messages[i].type = "tool"
    THEN ScanQueriesAll(messages, i - 1) \o json_loads_keys(messages[i].content)
    ELSE ScanQueriesAll(messages, i - 1)

\* the scan that goes on to an older ToolMessage when the latest one does
\* not parse
RECURSIVE ScanQueriesFallback(_, _)
ScanQueriesFallback(messages, i) ==
    IF i = 0 THEN <<>>
    ELSE IF messages[i].type = "tool" /\ messages[i].content.kind = "object"
    THEN json_loads_keys(messages[i].content)
    ELSE ScanQueriesFallback(messages, i - 1)

RECURSIVE ScanQueries(_, _)
ScanQueries(messages, i) ==
    IF i = 0 THEN <<>>
    ELSE IF messages[i].type = "tool" THEN json_loads_keys(messages[i].content)
    ELSE ScanQueries(messages, i - 1)

extract_latest_queries_from_tools(messages) == ScanQueries(messages, Len(messages))

\* the count with the wrong message class
count_human_visits(state) == Cardinality({i \in 1..Len(state) : state[i].type = "human"})

\* sum(isinstance(item, ToolMessage) for item in state)
count_tool_visits(state) == Cardinality({i \in 1..Len(state) : state[i].type = "tool"})

(***************************************************************************)
(* The controller (reflexion_agent.py:87-106, ui_app.py:84-96): the route  *)
(* it returns and the best score it leaves, from the history, the cap, the *)
(* best score so far and the scorer in force.                              *)
(***************************************************************************)
SENTINEL == -100

\* the cap test, one pass late
OverCapLate(count, cap) == count > cap + 1
\* reflexion_agent.py:92, ui_app.py:87
OverCap(count, cap) == count > cap

\* the scoring guard as "ans is not None"
ScorableNotNone(ans) == ans.tag = "str"
\* reflexion_agent.py:99, ui_app.py:91: "if ans:"
Scorable(ans) == Truthy(ans)

\* the comparison the wrong way round
NoImprovementInverted(cur, best_val) == cur >= best_val
\* the early stop on a strictly lower score only
NoImprovementStrict(cur, best_val) == cur < best_val
\* reflexion_agent.py:102, ui_app.py:93
NoImprovement(cur, best_val) == cur <= best_val

\* the controller that stores the score before it compares it
DecideAssignFirst(state, cap, best_val, binding) ==
    LET count == count_tool_visits(state)
        got == extract_last_tool_answer(state)
        queries_used == extract_latest_queries_from_tools(state)
        cur == Scorer(binding, got.ans, got.refs, queries_used)
    IN  IF OverCap(count, cap)
        THEN [route |-> "END", best |-> best_val, scored |-> FALSE, cur |-> 0,
              count |-> count, ans |-> got.ans, queries |-> <<>>]
        ELSE IF Scorable(got.ans)
        THEN [route |-> IF NoImprovement(cur, best_val) THEN "END" ELSE "execute_tools",
              best |-> cur, scored |-> TRUE, cur |-> cur,
              count |-> count, ans |-> got.ans, queries |-> queries_used]
        ELSE [route |-> "execute_tools", best |-> best_val, scored |-> FALSE, cur |-> 0,
              count |-> count, ans |-> got.ans, queries |-> queries_used]

Decide(state, cap, best_val, binding) ==
    LET count == count_tool_visits(state)
        got == extract_last_tool_answer(state)
        queries_used == extract_latest_queries_from_tools(state)
        cur == Scorer(binding, got.ans, got.refs, queries_used)
    IN  IF OverCap(count, cap)
        THEN [route |-> "END", best |-> best_val, scored |-> FALSE, cur |-> 0,
              count |-> count, ans |-> got.ans, queries |-> <<>>]
        ELSE IF Scorable(got.ans)
        THEN IF NoImprovement(cur, best_val)
             THEN [route |-> "END", best |-> best_val, scored |-> TRUE, cur |-> cur,
                   count |-> count, ans |-> got.ans, queries |-> queries_used]
             ELSE [route |-> "execute_tools", best |-> cur, scored |-> TRUE, cur |-> cur,
                   count |-> count, ans |-> got.ans, queries |-> queries_used]
        ELSE [route |-> "execute_tools", best |-> best_val, scored |-> FALSE, cur |-> 0,
              count |-> count, ans |-> got.ans, queries |-> queries_used]

(***************************************************************************)
(* What the collaborators may return.                                      *)
(***************************************************************************)
Item(url) == [ok |-> TRUE, url |-> url]
BadItem == [ok |-> FALSE, url |-> <<>>]

Urls == {<<"u">>, <<"v">>, <<"w">>, <<"x">>}

Raises == [raises |-> TRUE, items |-> <<>>]
Returns(items) == [raises |-> FALSE, items |-> items]

\* one collaborator call: it raises; no result; five results of which one is
\* padded, one repeated and one without url; four fresh results; a result
\* followed by an item that is no mapping
SearchResponses ==
    { Raises,
      Returns(<<>>),
      Returns(<<Item(<<" ", "u">>), Item(<<"u">>), Item(<<>>), Item(<<"v">>), Item(<<"w">>)>>),
      Returns(<<Item(<<"u">>), Item(<<"v">>), Item(<<"w">>), Item(<<"x">>)>>),
      Returns(<<Item(<<"x">>), BadItem>>) }

Call(name, id, args) == [name |-> name, id |-> id, args |-> args]

\* raw queries: "a", ' "a", ' (cleans to a), "b", "," (cleans to nothing)
QA == <<"a">>
QA2 == <<" ", "\"", "a", "\"", ",", " ">>
QB == <<"b">>
QNone == <<",">>

\* the tool_calls of one model response (draft or revision): none; one with
\* an unknown name; a short answer; a 250-word answer with a reference; one
\* with citations and two references; an empty answer
ModelOutputs ==
    { <<>>,
      <<Call("Other", "c1", [answer |-> Text(250, 0), search_queries |-> <<QA>>])>>,
      <<Call("AnswerQuestion", "c1", [answer |-> Text(100, 0), search_queries |-> <<QA>>])>>,
      <<Call("ReviseAnswer", "c1",
             [answer |-> Text(250, 0), references |-> <<"blog.example/ai">>,
              search_queries |-> <<QA>>])>>,
      <<Call("ReviseAnswer", "c1",
             [answer |-> Text(250, 5), references |-> <<"mckinsey.com/ai", "blog.example/ai">>,
              search_queries |-> <<QB>>])>>,
      <<Call("ReviseAnswer", "c1", [answer |-> EmptyAnswer, search_queries |-> <<QB>>])>> }

\* model responses that carry query batches: three raw queries of which one
\* cleans to nothing; two that clean to the same text; two invocations, the
\* second without answer
QueryOutputs ==
    { <<Call("AnswerQuestion", "c1",
             [answer |-> Text(250, 0), references |-> <<"blog.example/ai">>,
              search_queries |-> <<QA2, QNone, QB>>])>>,
      <<Call("ReviseAnswer", "c1",
             [answer |-> Text(250, 5), references |-> <<"mckinsey.com/ai", "blog.example/ai">>,
              search_queries |-> <<QA, QA2>>])>>,
      <<Call("ReviseAnswer", "c1", [answer |-> Text(100, 0), search_queries |-> <<QA>>]),
        Call("ReviseAnswer", "c2", [search_queries |-> <<QB>>])>> }

\* The two collaborators are explored one at a time: with scenario "model" the
\* model collaborator ranges over ModelOutputs and a search returns one result;
\* with scenario "search" the search collaborator ranges over SearchResponses
\* and the model over QueryOutputs.
ModelMenu(sc) == IF sc = "model" THEN ModelOutputs ELSE QueryOutputs

SearchMenu(sc) == IF sc = "model" THEN {Returns(<<Item(<<"u">>)>>)} ELSE SearchResponses

HasRecognized(tool_calls) == LastRecognized(tool_calls, Len(tool_calls)) # 0

(***************************************************************************)
(* State.                                                                  *)
(***************************************************************************)
MAX_ITERATIONS == 2

VARIABLES
    scenario,        \* which collaborator is explored: "model" or "search"
    module,          \* the script running: "reflexion_agent" or "ui_app"
    loaded,          \* reflexion_agent.py has run to its last line
    runs,            \* app.invoke calls made so far
    pc,              \* "idle", the graph node to run next, or "END"
    state,           \* the message history of the run
    SEEN_URLS,       \* execute_tools.SEEN_URLS
    _best_score,     \* reflexion_agent._best_score
    max_iterations,  \* the max_iterations of the build_graph call
    best,            \* best["val"] of the build_graph call
    cycles,          \* history: revisor steps of the run
    start_best,      \* history: the controller's best score when the run began
    decisions,       \* history: the scored event_loop calls of the run
    last,            \* history: the latest event_loop call of the run
    emitted,         \* history: times each url was emitted since the last clear
    searches,        \* history: what the collaborator did in the pass just made
    threads,         \* two runs inside the projection loop of execute_tools
    graphs,          \* two graphs built by two build_graph calls, run together
    arg,             \* arguments of a function applied on its own
    ret              \* its result

vars == <<scenario, module, loaded, runs, pc, state, SEEN_URLS, _best_score, max_iterations,
          best, cycles, start_best, decisions, last, emitted, searches, threads, graphs,
          arg, ret>>

\* the cap the controller of the running script compares against
Cap == IF module = "ui_app" THEN max_iterations ELSE MAX_ITERATIONS

\* histories are stored up to this length
HistoryCap == 2 * Max(MaxIter, MAX_ITERATIONS) + 4

NoCall == [n |-> 0, route |-> "-", scored |-> FALSE, cur |-> 0, count |-> 0,
           before |-> SENTINEL, after |-> SENTINEL, ans |-> NoneAnswer, queries |-> <<>>]

\* nothing has run yet
Fresh ==
    /\ loaded = FALSE
    /\ runs = 0
    /\ pc = "idle"
    /\ state = <<>>
    /\ SEEN_URLS = {}
    /\ _best_score = SENTINEL
    /\ max_iterations = 0
    /\ best = SENTINEL
    /\ cycles = 0
    /\ start_best = SENTINEL
    /\ decisions = <<>>
    /\ last = NoCall
    /\ emitted = [u \in Urls |-> 0]
    /\ searches = <<>>

\* one run at a time: no second thread, no second graph
Alone ==
    /\ threads = <<>>
    /\ graphs = <<>>

Init ==
    /\ scenario \in {"model", "search"}
    /\ module \in {"reflexion_agent", "ui_app"}
    /\ Fresh
    /\ Alone
    /\ arg = <<>>
    /\ ret = <<>>

(***************************************************************************)
(* History bookkeeping.                                                    *)
(***************************************************************************)
\* the urls of the result lists of one payload, then of a list of messages
RECURSIVE PayloadUrls(_, _)
PayloadUrls(members, i) ==
    IF i > Len(members) THEN <<>>
    ELSE (IF members[i].value.error THEN <<>>
          ELSE [n \in 1..Len(members[i].value.results) |-> members[i].value.results[n].url])
         \o PayloadUrls(members, i + 1)

RECURSIVE MessagesUrls(_, _)
MessagesUrls(messages, i) ==
    IF i > Len(messages) THEN <<>>
    ELSE PayloadUrls(messages[i].content.members, 1) \o MessagesUrls(messages, i + 1)

Occurrences(seq, x) == Cardinality({i \in 1..Len(seq) : seq[i] = x})

\* a model response is stored at the end of the history; past HistoryCap a
\* response without recognized invocation takes the place of a last message
\* of the same kind (execute_tools reads the last message only, the extractors
\* skip both, event_loop counts ToolMessages only)
Absorbs(history, tool_calls) ==
    /\ Len(history) >= HistoryCap
    /\ history[Len(history)].type = "ai"
    /\ ~HasRecognized(history[Len(history)].tool_calls)
    /\ ~HasRecognized(tool_calls)

Store(history, tool_calls) ==
    IF Len(history) < HistoryCap THEN Append(history, AIMessage(tool_calls))
    ELSE [history EXCEPT ![Len(history)] = AIMessage(tool_calls)]

(***************************************************************************)
(* Actions.                                                                *)
(***************************************************************************)
\* reflexion_agent.py:121 (and any later app.invoke of the loaded module)
agent_invoke ==
    /\ module = "reflexion_agent"
    /\ \/ pc = "idle"
       \/ pc = "END" /\ loaded
    /\ runs < MaxRuns
    /\ runs' = runs + 1
    /\ pc' = "draft"
    /\ state' = <<HumanMessage>>
    /\ cycles' = 0
    /\ start_best' = _best_score
    /\ decisions' = <<>>
    /\ searches' = <<>>
    /\ last' = NoCall
    /\ UNCHANGED <<threads, graphs, arg, ret, scenario, module, loaded, SEEN_URLS, _best_score, max_iterations, best, emitted>>

\* reflexion_agent.py:125-147: the rest of the module body, which rebinds
\* evaluate_answer
module_loaded ==
    /\ module = "reflexion_agent"
    /\ pc = "END"
    /\ ~loaded
    /\ loaded' = TRUE
    /\ UNCHANGED <<searches, threads, graphs, arg, ret, scenario, module, runs, pc, state, SEEN_URLS, _best_score, max_iterations,
                   best, cycles, start_best, decisions, last, emitted>>

\* ui_app.py:151-156: build_graph(max_iters), compile, invoke
ui_run ==
    /\ module = "ui_app"
    /\ pc \in {"idle", "END"}
    /\ runs < MaxRuns
    /\ \E m \in 0..MaxIter : max_iterations' = m
    /\ best' = SENTINEL
    /\ runs' = runs + 1
    /\ pc' = "draft"
    /\ state' = <<HumanMessage>>
    /\ cycles' = 0
    /\ start_best' = SENTINEL
    /\ decisions' = <<>>
    /\ searches' = <<>>
    /\ last' = NoCall
    /\ UNCHANGED <<threads, graphs, arg, ret, scenario, module, loaded, SEEN_URLS, _best_score, emitted>>

\* ui_app.py:144-145: the "Clear deduped sources" button, between two runs
clear_sources ==
    /\ module = "ui_app"
    /\ pc \in {"idle", "END"}
    /\ SEEN_URLS # {}
    /\ SEEN_URLS' = {}
    /\ emitted' = [u \in Urls |-> 0]
    /\ UNCHANGED <<searches, threads, graphs, arg, ret, scenario, module, loaded, runs, pc, state, _best_score, max_iterations, best,
                   cycles, start_best, decisions, last>>

\* node "draft": first_responder_chain
draft ==
    /\ pc = "draft"
    /\ \E tool_calls \in ModelMenu(scenario) :
          /\ Len(state) < HistoryCap \/ Absorbs(state, tool_calls)
          /\ state' = Store(state, tool_calls)
    /\ pc' = "execute_tools"
    /\ UNCHANGED <<searches, threads, graphs, arg, ret, scenario, module, loaded, runs, SEEN_URLS, _best_score, max_iterations, best,
                   cycles, start_best, decisions, last, emitted>>

\* node "execute_tools"; the messages it returns are appended to the history
execute_tools_node ==
    /\ pc = "execute_tools"
    /\ \E resps \in [1..CountSearches(state[Len(state)].tool_calls, 1) -> SearchMenu(scenario)] :
          \E r \in {execute_tools(state, resps, SEEN_URLS)} :
          \E urls \in {MessagesUrls(r.messages, 1)} :
              /\ pc' = IF r.raised THEN "raised" ELSE "revisor"
              /\ state' = state \o r.messages
              /\ SEEN_URLS' = r.seen
              /\ emitted' = [u \in Urls |-> Min(2, emitted[u] + Occurrences(urls, u))]
              /\ searches' = resps
    /\ UNCHANGED <<threads, graphs, arg, ret, scenario, module, loaded, runs, _best_score, max_iterations, best, cycles,
                   start_best, decisions, last>>

\* node "revisor": revisor_chain
revisor ==
    /\ pc = "revisor"
    /\ \E tool_calls \in ModelMenu(scenario) :
          /\ Len(state) < HistoryCap \/ Absorbs(state, tool_calls)
          /\ state' = Store(state, tool_calls)
    /\ pc' = "event_loop"
    /\ searches' = <<>>
    /\ cycles' = Min(HistoryCap, cycles + 1)
    /\ UNCHANGED <<threads, graphs, arg, ret, scenario, module, loaded, runs, SEEN_URLS, _best_score, max_iterations, best,
                   start_best, decisions, last, emitted>>

\* what one event_loop call leaves in the history variables
Record(d, before) ==
    /\ last' = [n |-> Min(HistoryCap, last.n + 1), route |-> d.route, scored |-> d.scored,
                cur |-> d.cur, count |-> d.count, before |-> before, after |-> d.best,
                ans |-> d.ans, queries |-> d.queries]
    /\ decisions' = IF d.scored
                    THEN Append(decisions, [cur |-> d.cur, route |-> d.route])
                    ELSE decisions

\* reflexion_agent.py:87-106, the conditional edge after "revisor"
event_loop ==
    /\ module = "reflexion_agent"
    /\ pc = "event_loop"
    /\ \E d \in {Decide(state, MAX_ITERATIONS, _best_score,
                          IF loaded THEN "second" ELSE "first")} :
           /\ _best_score' = d.best
           /\ pc' = d.route
           /\ Record(d, _best_score)
    /\ UNCHANGED <<searches, threads, graphs, arg, ret, scenario, module, loaded, runs, state, SEEN_URLS, max_iterations, best, cycles,
                   start_best, emitted>>

\* ui_app.py:84-96, the conditional edge after "revisor"
ui_event_loop ==
    /\ module = "ui_app"
    /\ pc = "event_loop"
    /\ \E d \in {Decide(state, max_iterations, best, "ui")} :
           /\ best' = d.best
           /\ pc' = d.route
           /\ Record(d, best)
    /\ UNCHANGED <<searches, threads, graphs, arg, ret, scenario, module, loaded, runs, state, SEEN_URLS, _best_score, max_iterations,
                   cycles, start_best, emitted>>

Next ==
    \/ agent_invoke
    \/ module_loaded
    \/ ui_run
    \/ clear_sources
    \/ draft
    \/ execute_tools_node
    \/ revisor
    \/ event_loop
    \/ ui_event_loop

Spec == Init /\ [][Next]_vars

(***************************************************************************)
(* Properties of the loop.                                                 *)
(***************************************************************************)
\* every model response of the run so far carries exactly one invocation, of a
\* recognized name
AllSingle ==
    \A i \in 1..Len(state) :
        state[i].type = "ai" =>
            Len(state[i].tool_calls) = 1 /\ state[i].tool_calls[1].name \in RecognizedNames

\* C1: when every model response carries exactly one recognized invocation, a
\* run makes at most Cap + 1 execute_tools/revisor cycles and has stopped once
\* event_loop has seen the last of them, and the history never holds more than
\* Cap + 1 ToolMessages.
C1_BoundedCycles ==
    AllSingle =>
        /\ count_tool_visits(state) <= Cap + 1
        /\ cycles <= Cap + 1
        /\ cycles = Cap + 1 => pc \in {"event_loop", "END"}

C1_Witness ==
    /\ AllSingle
    /\ pc = "END"
    /\ cycles = Cap + 1
    /\ count_tool_visits(state) = Cap + 1
    /\ Cap >= 1

\* C2: an event_loop call on a history with more ToolMessages than the cap
\* returns END, whatever the answer and the scores; with cap 0 one ToolMessage
\* is enough.
C2_HardCap ==
    last.n > 0 =>
        /\ last.count > Cap => last.route = "END" /\ ~last.scored
        /\ Cap = 0 /\ last.count >= 1 => last.route = "END"

\* the cap stopped a run whose latest answer scores above the best so far
C2_Witness ==
    /\ module = "ui_app"
    /\ max_iterations = 0
    /\ pc = "END"
    /\ last.count = 1
    /\ last.route = "END"
    /\ LET got == extract_last_tool_answer(state) IN
          /\ Truthy(got.ans)
          /\ evaluate_answer(got.ans, got.refs, extract_latest_queries_from_tools(state))
                > last.before

\* the best score the controller holds before its i-th scored call of the run
RECURSIVE RunningBest(_)
RunningBest(i) ==
    IF i = 1 THEN start_best ELSE Max(RunningBest(i - 1), decisions[i - 1].cur)

\* C3: within a run each score above the running best continues, the first
\* score not above it stops, a call past the cap stops, and nothing is decided
\* after a stop.
C3_MonotonicStop ==
    /\ \A i \in 1..Len(decisions) :
          decisions[i].route = "execute_tools" <=> decisions[i].cur > RunningBest(i)
    /\ \A i \in 1..(Len(decisions) - 1) : decisions[i].route = "execute_tools"
    /\ last.n > 0 /\ last.route = "END" =>
          /\ pc = "END"
          /\ last.scored \/ last.count > Cap
    /\ last.n > 0 /\ last.route = "execute_tools" /\ last.scored =>
          last.cur > last.before /\ last.count <= Cap

\* two improving scores, then a score equal to the running best stops the run
C3_Witness ==
    /\ Len(decisions) = 3
    /\ decisions[3].route = "END"
    /\ decisions[3].cur = RunningBest(3)
    /\ last.count <= Cap

\* C4: in reflexion_agent.py every run starts with the best score at the
\* sentinel, so the first scored answer of every run continues.
C4_FreshBestEachRun ==
    module = "reflexion_agent" =>
        /\ pc = "draft" => _best_score = SENTINEL
        /\ Len(decisions) >= 1 => decisions[1].route = "execute_tools"

\* C5 as stated: an empty latest answer after a scored one stops the run.
C5_EmptyAnswerStops ==
    last.n > 0 /\ last.ans = EmptyAnswer /\ last.before >= 0 => last.route = "END"

\* C5 as the code has it: an empty latest answer is not scored; the call
\* continues and leaves the best score alone unless the cap is exceeded.
C5_EmptyAnswerContinues ==
    last.n > 0 /\ last.ans = EmptyAnswer =>
        /\ ~last.scored
        /\ last.after = last.before
        /\ last.route = "END" <=> last.count > Cap

C5_Witness ==
    /\ last.ans = EmptyAnswer
    /\ last.before >= 0
    /\ last.count <= Cap
    /\ last.route = "execute_tools"

(***************************************************************************)
(* Properties of the search executor.  They are read off the state right   *)
(* after a pass (pc = "revisor"): the messages after the last model        *)
(* response are the ones the pass returned, and searches holds what the    *)
(* collaborator did on each of its calls, in call order.                   *)
(***************************************************************************)
RECURSIVE TrailingTools(_, _)
TrailingTools(history, i) ==
    IF i = 0 \/ history[i].type # "tool" THEN 0 ELSE 1 + TrailingTools(history, i - 1)

PassCount == TrailingTools(state, Len(state))
PassSource == state[Len(state) - PassCount]
PassMessage(n) == state[Len(state) - PassCount + n]

IsRecognized(tc) == tc.name \in RecognizedNames
PassCalls == SelectSeq(PassSource.tool_calls, IsRecognized)

NonEmpty(q) == q # <<>>
\* the normalized non-empty queries of the n-th recognized invocation
Cleaned(n) ==
    LET qs == GetSearchQueries(PassCalls[n].args) IN
    SelectSeq([i \in 1..Len(qs) |-> _clean_query(qs[i])], NonEmpty)

\* collaborator calls made before those of the n-th recognized invocation
RECURSIVE SearchOffset(_)
SearchOffset(n) == IF n = 1 THEN 0 ELSE SearchOffset(n - 1) + Len(Cleaned(n - 1))

\* a sequence without the repetitions of its elements
RECURSIVE FirstOccurrences(_, _)
FirstOccurrences(seq, i) ==
    IF i = 0 THEN <<>>
    ELSE IF \E j \in 1..(i - 1) : seq[j] = seq[i] THEN FirstOccurrences(seq, i - 1)
    ELSE Append(FirstOccurrences(seq, i - 1), seq[i])

\* the search or the projection of its results raised
Fails(resp) == resp.raises \/ \E i \in 1..Len(resp.items) : ~resp.items[i].ok

PayloadValue(members, key) == (CHOOSE m \in {members[i] : i \in 1..Len(members)} : m.key = key).value

\* what all readings of C6 share: the pass does not raise, returns one message
\* per recognized invocation, and the keys of each payload are the distinct
\* normalized non-empty queries in order of first occurrence
PassShape ==
    /\ pc # "raised"
    /\ pc = "revisor" =>
          /\ PassCount = Len(PassCalls)
          /\ \A n \in 1..Len(PassCalls) :
                /\ PassMessage(n).content.kind = "object"
                /\ DictKeys(PassMessage(n).content.members)
                      = FirstOccurrences(Cleaned(n), Len(Cleaned(n)))

\* C6 as stated: every query whose search fails maps to an error record and
\* every other query to a result list.
C6_EachFailingQueryIsError ==
    /\ PassShape
    /\ pc = "revisor" =>
          \A n \in 1..Len(PassCalls) : \A i \in 1..Len(Cleaned(n)) :
              PayloadValue(PassMessage(n).content.members, Cleaned(n)[i]).error
                  <=> Fails(searches[SearchOffset(n) + i])

\* C6 as the code has it: a key maps to the outcome of the last query that
\* normalizes to it.
C6_LastOutcomePerKey ==
    /\ PassShape
    /\ pc = "revisor" =>
          \A n \in 1..Len(PassCalls) : \A i \in 1..Len(Cleaned(n)) :
              (\A j \in (i + 1)..Len(Cleaned(n)) : Cleaned(n)[j] # Cleaned(n)[i]) =>
                  (PayloadValue(PassMessage(n).content.members, Cleaned(n)[i]).error
                      <=> Fails(searches[SearchOffset(n) + i]))

\* a query whose search raises is followed by a query that gets results
C6_Witness ==
    /\ pc = "revisor"
    /\ Len(PassCalls) = 1
    /\ Len(Cleaned(1)) = 2
    /\ Cleaned(1)[1] # Cleaned(1)[2]
    /\ searches[1].raises
    /\ PayloadValue(PassMessage(1).content.members, Cleaned(1)[1]).error
    /\ PayloadValue(PassMessage(1).content.members, Cleaned(1)[2]).results # <<>>

\* the urls of the result lists returned by the pass just made
PassUrls == MessagesUrls(SubSeq(state, Len(state) - PassCount + 1, Len(state)), 1)

\* C7: between two clears of SEEN_URLS, a url put in a returned result list
\* was not in SEEN_URLS before the pass that returned it, was in no result
\* list returned earlier, and occurs once in the result lists of its pass.
C7_FreshUrlsOnly ==
    [][pc = "execute_tools" =>
          LET new == MessagesUrls(SubSeq(state', Len(state) + 1, Len(state')), 1) IN
          \A i \in 1..Len(new) :
              /\ new[i] \notin SEEN_URLS
              /\ emitted[new[i]] = 0
              /\ Occurrences(new, new[i]) = 1
              /\ emitted'[new[i]] = 1]_vars

\* a later pass is offered a url that an earlier pass returned, and drops it
C7_Witness ==
    /\ pc = "revisor"
    /\ cycles >= 1
    /\ \E k \in 1..Len(searches) : \E i \in 1..Len(searches[k].items) :
          LET url == strip(searches[k].items[i].url, Whitespace) IN
          /\ searches[k].items[i].ok
          /\ url \in Urls
          /\ emitted[url] = 1
          /\ Occurrences(PassUrls, url) = 0
    /\ PassUrls # <<>>

\* C9: every url of SEEN_URLS is in a result list returned since the last
\* clear.
C9_SeenWereReturned == \A u \in SEEN_URLS : emitted[u] >= 1

\* the highest of the sentinel and the first n scores computed in the run
RECURSIVE HighestScore(_)
HighestScore(n) == IF n = 0 THEN SENTINEL ELSE Max(HighestScore(n - 1), decisions[n].cur)

\* C15: in a run built by build_graph the best score is, after every
\* event_loop call, the maximum of the sentinel and the scores computed so far
\* in the run, and no call lowers it.
C15_BestIsMaximum ==
    module = "ui_app" =>
        /\ best = HighestScore(Len(decisions))
        /\ last.n > 0 => last.after >= last.before /\ last.after = best

\* the run stopped on a score below the best one, which is kept
C15_Witness ==
    /\ module = "ui_app"
    /\ pc = "END"
    /\ Len(decisions) = 2
    /\ decisions[2].cur < decisions[1].cur
    /\ best = decisions[1].cur

\* C16: an event_loop call that returns END leaves the best score as it was,
\* so does a call that continues on an answer that is absent or empty, and no
\* call changes the history or SEEN_URLS.
C16_EventLoopFrame ==
    [][pc = "event_loop" =>
          /\ state' = state
          /\ SEEN_URLS' = SEEN_URLS
          /\ (pc' = "END" \/ ~Truthy(extract_last_tool_answer(state).ans)) =>
                best' = best /\ _best_score' = _best_score]_vars

\* a call stopped on a score below the best one and left the best score
C16_Witness ==
    /\ last.n > 0
    /\ last.route = "END"
    /\ last.scored
    /\ last.cur < last.before
    /\ last.after = last.before
    /\ (IF module = "ui_app" THEN best ELSE _best_score) = last.before

(***************************************************************************)
(* The queries used by the controller.                                     *)
(***************************************************************************)
Range(seq) == {seq[i] : i \in 1..Len(seq)}

\* C14 as stated: the queries used at an event_loop call contain those used
\* at the call before it in the run, and so those of every earlier call.
C14_QueriesAccumulate ==
    [][pc = "event_loop" /\ last.n > 0 /\ ~OverCap(last'.count, Cap) =>
          Range(last.queries) \subseteq Range(last'.queries)]_vars

\* the distinct normalized non-empty queries, in order of first occurrence, of
\* the last recognized invocation of the model response whose pass returned
\* the latest ToolMessage of the history; none when it holds no ToolMessage
LatestPassQueries(history) ==
    LET tools == {i \in 1..Len(history) : history[i].type = "tool"} IN
    IF tools = {} THEN <<>>
    ELSE LET t == CHOOSE i \in tools : \A k \in tools : k <= i
             a == CHOOSE i \in 1..t : /\ history[i].type = "ai"
                                      /\ \A k \in (i + 1)..t : history[k].type = "tool"
             tcs == history[a].tool_calls
             qs == GetSearchQueries(tcs[LastRecognized(tcs, Len(tcs))].args)
             cleaned == SelectSeq([i \in 1..Len(qs) |-> _clean_query(qs[i])],
                                  LAMBDA q : q # <<>>)
         IN  FirstOccurrences(cleaned, Len(cleaned))

\* C14 as the code has it: the queries used at an event_loop call that gets
\* past the cap test are those of the latest pass that returned a ToolMessage
\* and no others.
C14_LatestPassOnly ==
    [][pc = "event_loop" /\ ~OverCap(last'.count, Cap) =>
          last'.queries = LatestPassQueries(state)]_vars

\* a call used the query of the second pass and not the one of the first
C14_Witness ==
    /\ last.n >= 2
    /\ last.count <= Cap
    /\ last.queries = <<_clean_query(QB)>>
    /\ \E i \in 1..Len(state) :
          /\ state[i].type = "tool"
          /\ json_loads_keys(state[i].content) = <<_clean_query(QA)>>
          /\ \E k \in (i + 1)..Len(state) : state[k].type = "tool"

(***************************************************************************)
(* The scorer on its own: evaluate_answer applied to one argument triple.  *)
(***************************************************************************)
\* len(ans.split()) of the answers scored
WordCounts == {0, 1, 100, 249, 250, 251, 549, 550, 551, 900}
\* most citations in an answer, references and queries used
MaxCites == 6
MaxRefs == 5
MaxQueries == 4

ScoreArgs ==
    [ans : {NoneAnswer, EmptyAnswer} \cup {Text(w, c) : w \in WordCounts, c \in 0..MaxCites},
     refs : {[i \in 1..n |-> "blog.example/ai"] : n \in 0..MaxRefs},
     queries_used : {[i \in 1..n |-> QA] : n \in 0..MaxQueries}]

system == <<scenario, module, loaded, runs, pc, state, SEEN_URLS, _best_score,
            max_iterations, best, cycles, start_best, decisions, last, emitted, searches,
            threads, graphs>>

InitScore ==
    /\ scenario = "model"
    /\ module = "ui_app"
    /\ Fresh
    /\ Alone
    /\ arg \in ScoreArgs
    /\ ret = [done |-> FALSE, value |-> 0]

score_call ==
    /\ ~ret.done
    /\ ret' = [done |-> TRUE,
               value |-> evaluate_answer(arg.ans, arg.refs, arg.queries_used)]
    /\ UNCHANGED <<system, arg>>

NextScore == score_call

SpecScore == InitScore /\ [][NextScore]_vars

\* the sum of C8, in hundredths
ClaimedScore(a) ==
    IF a.ans \in {NoneAnswer, EmptyAnswer} THEN 0
    ELSE   Max(0, 3000 - 10 * Abs(a.ans.w - 250))
         + Min(2000, 500 * Len(a.refs))
         + Min(2000, 400 * a.ans.c)
         + Min(3000, 1000 * Min(3, Len(a.queries_used)))

\* C8: evaluate_answer returns 0 for an empty or absent answer and otherwise
\* the sum of the four capped terms; the score lies in 0..100, and its length
\* term is 30 exactly for 250 words.
C8_ScoreFormula ==
    ret.done =>
        /\ ret.value = ClaimedScore(arg)
        /\ ret.value >= 0 /\ ret.value <= 10000
        /\ Truthy(arg.ans) =>
              ((ret.value - Min(2000, 500 * Len(arg.refs)) - Min(2000, 400 * arg.ans.c)
                   - Min(3000, 1000 * Min(3, Len(arg.queries_used))) = 3000)
               <=> arg.ans.w = 250)

\* a 250-word answer with every term at its cap scores 100
C8_Witness ==
    /\ ret.done
    /\ arg.ans.w = 250
    /\ arg.ans.c > 5 /\ Len(arg.refs) > 4 /\ Len(arg.queries_used) > 3
    /\ ret.value = 10000

(***************************************************************************)
(* Termination.  The graph engine runs the next node of a started run, and *)
(* every collaborator call returns: each node action is weakly fair.  The  *)
(* executor node is enabled exactly when pc = "execute_tools" and every    *)
(* step of it leaves that position, so its weak fairness is stated on pc.  *)
(***************************************************************************)
\* the model collaborator is the one explored
InitModel == Init /\ scenario = "model"

FairSpec ==
    /\ InitModel /\ [][Next]_vars
    /\ WF_vars(draft)
    /\ []<>(pc # "execute_tools")
    /\ WF_vars(revisor)
    /\ WF_vars(event_loop)
    /\ WF_vars(ui_event_loop)

\* the run is cut by the bound on stored histories, not by the program
Truncated ==
    /\ pc = "revisor"
    /\ \A tool_calls \in ModelMenu(scenario) :
          ~(Len(state) < HistoryCap \/ Absorbs(state, tool_calls))

\* C10: every run that starts reaches END, whatever the model returns.
C10_EveryRunStops == (pc = "draft") ~> (pc = "END" \/ Truncated)

(***************************************************************************)
(* Two runs in one process.  SEEN_URLS is module state of execute_tools.py, *)
(* one set per process, and every Streamlit session runs ui_app.py in a     *)
(* thread of that process; execute_tools.py holds no lock.  Each run is in  *)
(* the projection loop (execute_tools.py:51-63) over what its search        *)
(* returned, and a thread switch may fall between any two statements.       *)
(***************************************************************************)
RunIds == {1, 2}

\* what the search of a run returned
RaceResponses ==
    { <<Item(<<"u">>), Item(<<"v">>)>>,
      <<Item(<<"v">>), Item(<<>>), Item(<<" ", "u">>)>>,
      <<Item(<<"w">>), Item(<<"w">>), BadItem>> }

\* line 50: compact = [], before the first item
EnterLoop(raw) ==
    [pc |-> "test", raw |-> raw, i |-> 1, url |-> <<>>, compact |-> <<>>,
     value |-> ResultList(<<>>)]

InitRace ==
    /\ scenario = "search"
    /\ module = "ui_app"
    /\ Fresh
    /\ graphs = <<>>
    /\ arg = <<>>
    /\ ret = <<>>
    /\ threads \in [RunIds -> {EnterLoop(raw) : raw \in RaceResponses}]

single == <<scenario, module, loaded, runs, pc, state, _best_score, max_iterations, best,
            cycles, start_best, decisions, last, emitted, searches, graphs, arg, ret>>

\* execute_tools.py:51-54: the next item, its url and the test on SEEN_URLS;
\* an item that is no mapping raises and line 65 stores the error record
test_url(t) ==
    /\ t \in DOMAIN threads
    /\ threads[t].pc = "test"
    /\ threads[t].i <= Len(threads[t].raw)
    /\ LET th == threads[t]
           item == th.raw[th.i]
           url == strip(item.url, Whitespace)
       IN  threads' = [threads EXCEPT ![t] =
               IF ~item.ok THEN [th EXCEPT !.pc = "done", !.value = ErrorRecord]
               ELSE IF Accept(url, SEEN_URLS) THEN [th EXCEPT !.pc = "add", !.url = url]
               ELSE [th EXCEPT !.i = th.i + 1, !.url = url]]
    /\ UNCHANGED <<single, SEEN_URLS>>

\* execute_tools.py:55-62: SEEN_URLS.add(url); compact.append(...)
add_url(t) ==
    /\ t \in DOMAIN threads
    /\ threads[t].pc = "add"
    /\ SEEN_URLS' = SEEN_URLS \cup {threads[t].url}
    /\ threads' = [threads EXCEPT ![t].pc = "test",
                                  ![t].i = threads[t].i + 1,
                                  ![t].compact = Append(threads[t].compact,
                                                        [url |-> threads[t].url])]
    /\ UNCHANGED single

\* execute_tools.py:63: query_results[query] = compact[:3]
store_results(t) ==
    /\ t \in DOMAIN threads
    /\ threads[t].pc = "test"
    /\ threads[t].i > Len(threads[t].raw)
    /\ threads' = [threads EXCEPT ![t].pc = "done",
                                  ![t].value = ResultList(Top3(threads[t].compact))]
    /\ UNCHANGED <<single, SEEN_URLS>>

NextRace == \E t \in RunIds : test_url(t) \/ add_url(t) \/ store_results(t)

SpecRace == InitRace /\ [][NextRace]_vars

\* the url is in the result list the run stored
Emitted(t, u) ==
    /\ threads[t].pc = "done"
    /\ ~threads[t].value.error
    /\ \E n \in 1..Len(threads[t].value.results) : threads[t].value.results[n].url = u

\* C11: of two runs that execute the projection loop together, at most one
\* accepts a given url as new: no url is in the result lists of both.
C11_AcceptedByOneRun ==
    \A u \in Urls : \A s, t \in DOMAIN threads : Emitted(s, u) /\ Emitted(t, u) => s = t

(***************************************************************************)
(* Two graphs in one process.  Every press of Run calls build_graph, which  *)
(* creates a best cell of its own and an event_loop closed over it and over *)
(* max_iterations (ui_app.py:82-96); two sessions run their graphs node by  *)
(* node in any interleaving.  SEEN_URLS is shared; a pass is one step here  *)
(* (SpecRace has its statements), which leaves the keys of its payloads and *)
(* the number of its messages, all that event_loop reads of them, as they   *)
(* are under any finer interleaving.                                        *)
(***************************************************************************)
\* the cell every graph reads and writes, as a module-level holder would be
SharedCell(g) == 1
\* ui_app.py:82: the cell the event_loop of graph g is closed over
BestCell(g) == g

\* model responses of these runs: a short answer, a 250-word answer with a
\* reference, an invocation without answer
GraphOutputs ==
    { <<Call("AnswerQuestion", "c1", [answer |-> Text(100, 0), search_queries |-> <<QA>>])>>,
      <<Call("ReviseAnswer", "c1",
             [answer |-> Text(250, 0), references |-> <<"blog.example/ai">>,
              search_queries |-> <<QA>>])>>,
      <<Call("ReviseAnswer", "c1", [search_queries |-> <<QB>>])>> }

\* ui_app.py:152-156: build_graph(max_iters), compile, invoke(prompt)
Built(m) ==
    [max_iterations |-> m, best |-> SENTINEL, pc |-> "draft", state |-> <<HumanMessage>>,
     routes |-> <<>>]

InitGraphs ==
    /\ scenario = "model"
    /\ module = "ui_app"
    /\ Fresh
    /\ threads = <<>>
    /\ arg = <<>>
    /\ ret = <<>>
    /\ graphs \in [RunIds -> {Built(m) : m \in 0..MaxIter}]

sequential == <<scenario, module, loaded, runs, pc, state, _best_score, max_iterations, best,
                cycles, start_best, decisions, last, emitted, searches, threads, arg, ret>>

\* node "draft" of graph g
graph_draft(g) ==
    /\ g \in DOMAIN graphs
    /\ graphs[g].pc = "draft"
    /\ \E tool_calls \in GraphOutputs :
          graphs' = [graphs EXCEPT ![g].state = Append(@, AIMessage(tool_calls)),
                                   ![g].pc = "execute_tools"]
    /\ UNCHANGED <<sequential, SEEN_URLS>>

\* node "execute_tools" of graph g
graph_execute_tools(g) ==
    /\ g \in DOMAIN graphs
    /\ graphs[g].pc = "execute_tools"
    /\ \E resps \in [1..CountSearches(graphs[g].state[Len(graphs[g].state)].tool_calls, 1)
                        -> SearchMenu(scenario)] :
          \E r \in {execute_tools(graphs[g].state, resps, SEEN_URLS)} :
              /\ graphs' = [graphs EXCEPT ![g].state = @ \o r.messages,
                                          ![g].pc = "revisor"]
              /\ SEEN_URLS' = r.seen
    /\ UNCHANGED sequential

\* node "revisor" of graph g
graph_revisor(g) ==
    /\ g \in DOMAIN graphs
    /\ graphs[g].pc = "revisor"
    /\ \E tool_calls \in GraphOutputs :
          graphs' = [graphs EXCEPT ![g].state = Append(@, AIMessage(tool_calls)),
                                   ![g].pc = "event_loop"]
    /\ UNCHANGED <<sequential, SEEN_URLS>>

\* ui_app.py:84-96: the event_loop of graph g, on the cell it is closed over
graph_event_loop(g) ==
    /\ g \in DOMAIN graphs
    /\ graphs[g].pc = "event_loop"
    /\ \E d \in {Decide(graphs[g].state, graphs[g].max_iterations,
                          graphs[BestCell(g)].best, "ui")} :
          graphs' = [graphs EXCEPT ![BestCell(g)].best = d.best,
                                   ![g].pc = d.route,
                                   ![g].routes = Append(@, d.route)]
    /\ UNCHANGED <<sequential, SEEN_URLS>>

NextGraphs ==
    \E g \in RunIds :
        \/ graph_draft(g)
        \/ graph_execute_tools(g)
        \/ graph_revisor(g)
        \/ graph_event_loop(g)

SpecGraphs == InitGraphs /\ [][NextGraphs]_vars

\* the place in a history of its n-th model response, searched from place i
RECURSIVE NthResponse(_, _, _)
NthResponse(history, n, i) ==
    IF history[i].type # "ai" THEN NthResponse(history, n, i + 1)
    ELSE IF n = 1 THEN i
    ELSE NthResponse(history, n - 1, i + 1)

\* the n-th event_loop call of a run on its own: it sees the history up to
\* the n-th revision (the n+1-th model response) and the best score left by
\* the calls before it, the first of them the sentinel
RECURSIVE Solo(_, _, _)
Solo(history, cap, n) ==
    IF n = 0 THEN [route |-> "-", best |-> SENTINEL]
    ELSE Decide(SubSeq(history, 1, NthResponse(history, n + 1, 1)), cap,
                Solo(history, cap, n - 1).best, "ui")

\* C12: the decisions of each of two interleaved runs built by two
\* build_graph calls are those the run makes on its own, from its own history
\* and max_iterations with a best score starting at -1.
C12_OwnHistoryOnly ==
    \A g \in DOMAIN graphs : \A n \in 1..Len(graphs[g].routes) :
        graphs[g].routes[n] = Solo(graphs[g].state, graphs[g].max_iterations, n).route

\* one run has stopped with the higher best score, and the other continued on
\* a lower score of its own
C12_Witness ==
    /\ graphs # <<>>
    /\ graphs[1].pc = "END"
    /\ graphs[2].routes = <<"execute_tools">>
    /\ graphs[2].best > SENTINEL
    /\ graphs[2].best < graphs[1].best

(***************************************************************************)
(* The two scorers side by side: the function the name evaluate_answer is  *)
(* bound to in reflexion_agent.py, before and after the module body has    *)
(* run to its end, and the function of ui_app.py, on one argument triple.  *)
(***************************************************************************)
NotCalled == [done |-> FALSE, binding |-> "-", value |-> 0]

InitMirror ==
    /\ scenario = "model"
    /\ module = "reflexion_agent"
    /\ Fresh
    /\ Alone
    /\ arg \in ScoreArgs
    /\ ret = [agent |-> NotCalled, ui |-> NotCalled]

\* reflexion_agent.py:141: the def statement at the end of the module body
\* rebinds evaluate_answer
rebind_evaluate_answer ==
    /\ ~loaded
    /\ loaded' = TRUE
    /\ UNCHANGED <<scenario, module, runs, pc, state, SEEN_URLS, _best_score, max_iterations,
                   best, cycles, start_best, decisions, last, emitted, searches, threads,
                   graphs, arg, ret>>

\* reflexion_agent.evaluate_answer(ans, refs, queries_used)
agent_score_call ==
    /\ ~ret.agent.done
    /\ \E binding \in {IF loaded THEN "second" ELSE "first"} :
          ret' = [ret EXCEPT !.agent =
                     [done |-> TRUE, binding |-> binding,
                      value |-> Scorer(binding, arg.ans, arg.refs, arg.queries_used)]]
    /\ UNCHANGED <<system, arg>>

\* ui_app.evaluate_answer(ans, refs, queries_used)
ui_score_call ==
    /\ ~ret.ui.done
    /\ ret' = [ret EXCEPT !.ui =
                  [done |-> TRUE, binding |-> "ui",
                   value |-> Scorer("ui", arg.ans, arg.refs, arg.queries_used)]]
    /\ UNCHANGED <<system, arg>>

NextMirror ==
    \/ rebind_evaluate_answer
    \/ agent_score_call
    \/ ui_score_call

SpecMirror == InitMirror /\ [][NextMirror]_vars

\* C13: on every argument triple, the evaluate_answer that reflexion_agent.py
\* binds once the module is loaded returns the score that the evaluate_answer
\* of ui_app.py returns.
C13_SameScore ==
    ret.agent.done /\ ret.agent.binding = "second" /\ ret.ui.done =>
        ret.agent.value = ret.ui.value

(***************************************************************************)
(* One search on its own (execute_tools.py:47-65): what the collaborator   *)
(* returned and the SEEN_URLS it met are drawn at the start.               *)
(***************************************************************************)
\* most items in one response (TavilySearch(max_results=5), line 8)
MaxRaw == 4

\* an item: a fresh url, the same url padded, no url, or no mapping at all
RawItems ==
    { Item(<<"u">>), Item(<<" ", "u">>), Item(<<"v">>), Item(<<"w">>), Item(<<"x">>),
      Item(<<>>), BadItem }

SearchArgs ==
    [resp : {Raises} \cup {Returns(items) : items \in UNION {[1..n -> RawItems] : n \in 0..MaxRaw}},
     seen : SUBSET {<<"u">>, <<"x">>}]

InitSearch ==
    /\ scenario = "search"
    /\ module = "ui_app"
    /\ Fresh
    /\ Alone
    /\ arg \in SearchArgs
    /\ ret = [done |-> FALSE, value |-> ErrorRecord, seen |-> {}]

search_call ==
    /\ ~ret.done
    /\ \E r \in {SearchOne(arg.resp, arg.seen)} :
          ret' = [done |-> TRUE, value |-> r.value, seen |-> r.seen]
    /\ UNCHANGED <<system, arg>>

NextSearch == search_call

SpecSearch == InitSearch /\ [][NextSearch]_vars

\* the trimmed url of the i-th item of the response
Trimmed(i) == strip(arg.resp.items[i].url, Whitespace)

\* the items that count as new: a url after trimming, not in SEEN_URLS when
\* the search began, not the url of an item before it
Candidates ==
    {i \in 1..Len(arg.resp.items) :
        /\ Trimmed(i) # <<>>
        /\ Trimmed(i) \notin arg.seen
        /\ \A j \in 1..(i - 1) : Trimmed(j) # Trimmed(i)}

\* C17: the result list of a successful search holds the first three (or
\* fewer, when there are fewer) of the items that count as new, in the order
\* the collaborator returned them, and never more than three records.
C17_FirstThreeNew ==
    ret.done /\ ~Fails(arg.resp) =>
        /\ ~ret.value.error
        /\ Len(ret.value.results) = Min(3, Cardinality(Candidates))
        /\ \A n \in 1..Len(ret.value.results) :
              \E i \in Candidates :
                  /\ Cardinality({j \in Candidates : j <= i}) = n
                  /\ ret.value.results[n] = [url |-> Trimmed(i)]

\* four new items, of which the fourth is left out
C17_Witness ==
    /\ ret.done
    /\ ~Fails(arg.resp)
    /\ Cardinality(Candidates) = 4
    /\ Len(ret.value.results) = 3

(***************************************************************************)
(* execute_tools on its own: the history it is given and what the          *)
(* collaborator does on each of its calls are drawn at the start.          *)
(***************************************************************************)
\* most invocations in one model response
MaxCalls == 3

\* an invocation by name and args: two recognized ones with queries, one of
\* an unknown name, a recognized one without search_queries
CallKinds ==
    { [name |-> "AnswerQuestion", args |-> [answer |-> Text(100, 0), search_queries |-> <<QA>>]],
      [name |-> "ReviseAnswer", args |-> [answer |-> Text(250, 0), search_queries |-> <<QA2, QNone, QB>>]],
      [name |-> "Other", args |-> [answer |-> Text(250, 0), search_queries |-> <<QA>>]],
      [name |-> "ReviseAnswer", args |-> [answer |-> Text(250, 5)]] }

CallIds == <<"c1", "c2", "c3", "c4">>

\* the tool_calls a model response may carry, ids by position
ToolCallLists ==
    { [j \in 1..Len(kinds) |-> Call(kinds[j].name, CallIds[j], kinds[j].args)] :
          kinds \in UNION {[1..n -> CallKinds] : n \in 0..MaxCalls} }

\* a ToolMessage of an earlier pass
EarlierResult == ToolMessage(json_dumps(<<[key |-> QA, value |-> ResultList(<<>>)]>>), "c0")

\* histories: empty; ending with the prompt, with a ToolMessage, or with a
\* model response, first of the run or not
ToolHistories ==
    {<<>>, <<HumanMessage>>}
    \cup {<<HumanMessage, AIMessage(tcs), EarlierResult>> : tcs \in ToolCallLists}
    \cup {<<HumanMessage, AIMessage(tcs)>> : tcs \in ToolCallLists}
    \cup {<<HumanMessage, AIMessage(<<>>), EarlierResult, AIMessage(tcs)>> : tcs \in ToolCallLists}

ToolSearches == {Raises, Returns(<<Item(<<"u">>), Item(<<"v">>)>>)}

\* collaborator calls execute_tools makes on a history
SearchCount(history) ==
    IF history = <<>> THEN 0
    ELSE IF history[Len(history)].type # "ai" THEN 0
    ELSE CountSearches(history[Len(history)].tool_calls, 1)

InitTools ==
    /\ scenario = "search"
    /\ module = "ui_app"
    /\ Fresh
    /\ Alone
    /\ \E history \in ToolHistories :
          \E resps \in [1..SearchCount(history) -> ToolSearches] :
              arg = [state |-> history, resps |-> resps]
    /\ ret = [done |-> FALSE, raised |-> FALSE, messages |-> <<>>, state |-> <<>>]

\* execute_tools(state); the list it was given is read at lines 21 and 24 and
\* written nowhere
tools_call ==
    /\ ~ret.done
    /\ \E r \in {execute_tools(arg.state, arg.resps, {})} :
          ret' = [done |-> TRUE, raised |-> r.raised, messages |-> r.messages,
                  state |-> arg.state]
    /\ UNCHANGED <<system, arg>>

NextTools == tools_call

SpecTools == InitTools /\ [][NextTools]_vars

\* the recognized invocations of the last message of the history given, when
\* that message is a model response
Actionable ==
    IF arg.state = <<>> THEN <<>>
    ELSE IF arg.state[Len(arg.state)].type # "ai" THEN <<>>
    ELSE SelectSeq(arg.state[Len(arg.state)].tool_calls, IsRecognized)

\* C18: execute_tools returns one ToolMessage for each recognized invocation
\* of the last message, in invocation order and with its call id, none when
\* the history is empty or its last message is no model response or carries
\* no recognized invocation, and leaves the history as it was.
C18_OneResultPerInvocation ==
    ret.done =>
        /\ ~ret.raised
        /\ Len(ret.messages) = Len(Actionable)
        /\ \A n \in 1..Len(ret.messages) :
              /\ ret.messages[n].type = "tool"
              /\ ret.messages[n].tool_call_id = Actionable[n].id
        /\ ( \/ arg.state = <<>>
             \/ arg.state[Len(arg.state)].type # "ai"
             \/ \A j \in 1..Len(arg.state[Len(arg.state)].tool_calls) :
                   ~IsRecognized(arg.state[Len(arg.state)].tool_calls[j]) )
              => ret.messages = <<>>
        /\ ret.state = arg.state

\* an unknown invocation before a recognized one: one message, for the second
C18_Witness ==
    /\ ret.done
    /\ arg.state # <<>>
    /\ Len(arg.state[Len(arg.state)].tool_calls) = 2
    /\ ~IsRecognized(arg.state[Len(arg.state)].tool_calls[1])
    /\ Len(ret.messages) = 1
    /\ ret.messages[1].tool_call_id = "c2"

(***************************************************************************)
(* The two extractors on their own (reflexion_agent.py:56-80, the same     *)
(* text at ui_app.py:50-72), applied to a history drawn at the start.      *)
(***************************************************************************)
\* longest history
MaxHistory == 3

\* the messages of these histories: the prompt; model responses without
\* invocation, with an unknown one, with a recognized one, with a recognized
\* one before an unknown one, with two recognized ones of which the second
\* has references and no answer; ToolMessages whose content is a mapping of
\* two keys, of one key, or no JSON at all
ExtractMessages ==
    { HumanMessage,
      AIMessage(<<>>),
      AIMessage(<<Call("Other", "c1", [answer |-> Text(250, 0),
                                       references |-> <<"blog.example/ai">>])>>),
      AIMessage(<<Call("AnswerQuestion", "c1",
                       [answer |-> Text(100, 0), references |-> <<"blog.example/ai">>,
                        search_queries |-> <<QA>>])>>),
      AIMessage(<<Call("ReviseAnswer", "c1", [answer |-> Text(250, 5)]),
                  Call("Other", "c2", [answer |-> Text(1, 0)])>>),
      AIMessage(<<Call("AnswerQuestion", "c1", [answer |-> Text(250, 0)]),
                  Call("ReviseAnswer", "c2", [references |-> <<"mckinsey.com/ai">>])>>),
      ToolMessage(json_dumps(<<[key |-> QB, value |-> ResultList(<<>>)],
                               [key |-> QA, value |-> ErrorRecord]>>), "c1"),
      ToolMessage(json_dumps(<<[key |-> QA, value |-> ResultList(<<>>)]>>), "c1"),
      ToolMessage(NoContent, "c1") }

Histories == UNION {[1..n -> ExtractMessages] : n \in 0..MaxHistory}

InitExtract ==
    /\ scenario = "model"
    /\ module = "ui_app"
    /\ Fresh
    /\ Alone
    /\ arg \in [messages : Histories]
    /\ ret = [answer |-> [done |-> FALSE, ans |-> NoneAnswer, refs |-> <<>>],
              queries |-> [done |-> FALSE, value |-> <<>>]]

\* extract_last_tool_answer(messages)
answer_call ==
    /\ ~ret.answer.done
    /\ \E got \in {extract_last_tool_answer(arg.messages)} :
          ret' = [ret EXCEPT !.answer = [done |-> TRUE, ans |-> got.ans, refs |-> got.refs]]
    /\ UNCHANGED <<system, arg>>

\* extract_latest_queries_from_tools(messages)
queries_call ==
    /\ ~ret.queries.done
    /\ ret' = [ret EXCEPT !.queries =
                  [done |-> TRUE, value |-> extract_latest_queries_from_tools(arg.messages)]]
    /\ UNCHANGED <<system, arg>>

NextExtract ==
    \/ answer_call
    \/ queries_call

SpecExtract == InitExtract /\ [][NextExtract]_vars

\* the places of the messages that carry an invocation of a recognized name
Carriers ==
    {i \in 1..Len(arg.messages) :
        \E j \in 1..Len(arg.messages[i].tool_calls) : IsRecognized(arg.messages[i].tool_calls[j])}

\* the greatest element of a non-empty set of places
Latest(places) == CHOOSE i \in places : \A k \in places : k <= i

\* C19: extract_last_tool_answer returns the answer and the references (the
\* empty list when absent) of the latest message that carries a recognized
\* invocation (of the last such invocation of that message), whatever
\* messages without a recognized invocation follow it, and (none, empty) when
\* no message carries one.
C19_LatestRecognizedAnswer ==
    ret.answer.done =>
        IF Carriers = {}
        THEN ret.answer.ans = NoneAnswer /\ ret.answer.refs = <<>>
        ELSE LET tcs == arg.messages[Latest(Carriers)].tool_calls
                 j == Latest({k \in 1..Len(tcs) : IsRecognized(tcs[k])})
             IN  /\ ret.answer.ans =
                        (IF "answer" \in DOMAIN tcs[j].args THEN tcs[j].args.answer
                         ELSE NoneAnswer)
                 /\ ret.answer.refs =
                        (IF "references" \in DOMAIN tcs[j].args THEN tcs[j].args.references
                         ELSE <<>>)

\* the answer comes from a message that a later message with an unknown
\* invocation only follows
C19_Witness ==
    /\ ret.answer.done
    /\ Carriers # {}
    /\ Latest(Carriers) < Len(arg.messages)
    /\ arg.messages[Len(arg.messages)].tool_calls # <<>>
    /\ ret.answer.ans = Text(100, 0)
    /\ ret.answer.refs # <<>>

\* the places of the ToolMessages
Results == {i \in 1..Len(arg.messages) : arg.messages[i].type = "tool"}

\* C20: extract_latest_queries_from_tools returns the keys, in payload order,
\* of the latest ToolMessage and of no other: the empty list when there is
\* none or when the content of the latest one is no mapping, older
\* ToolMessages notwithstanding.
C20_LatestResultKeys ==
    ret.queries.done =>
        IF Results = {} THEN ret.queries.value = <<>>
        ELSE LET content == arg.messages[Latest(Results)].content IN
             IF content.kind # "object" THEN ret.queries.value = <<>>
             ELSE /\ Len(ret.queries.value) = Len(content.members)
                  /\ \A n \in 1..Len(content.members) :
                        ret.queries.value[n] = content.members[n].key

\* the latest ToolMessage does not parse and an older one does
C20_Witness ==
    /\ ret.queries.done
    /\ Cardinality(Results) >= 2
    /\ arg.messages[Latest(Results)].content.kind # "object"
    /\ \E i \in Results : arg.messages[i].content.kind = "object"
    /\ ret.queries.value = <<>>

(***************************************************************************)
(* _clean_query on its own (execute_tools.py:13-17), applied to a query    *)
(* drawn at the start and then to its own result, as when a payload key is *)
(* sent back as a query.                                                   *)
(***************************************************************************)
\* longest query
MaxQueryLen == 3

\* whitespace, comma, single quote, double quote, a letter
QueryChars == {" ", ",", "'", "\"", "a"}

Queries == UNION {[1..n -> QueryChars] : n \in 0..MaxQueryLen}

InitClean ==
    /\ scenario = "search"
    /\ module = "ui_app"
    /\ Fresh
    /\ Alone
    /\ arg \in Queries
    /\ ret = [calls |-> 0, first |-> <<>>, value |-> <<>>]

\* query = _clean_query(query), line 44
clean_call ==
    /\ ret.calls = 0
    /\ \E query \in {_clean_query(arg)} :
          ret' = [calls |-> 1, first |-> query, value |-> query]
    /\ UNCHANGED <<system, arg>>

\* the key returned is given to _clean_query again
clean_again ==
    /\ ret.calls = 1
    /\ ret' = [ret EXCEPT !.calls = 2, !.value = _clean_query(ret.first)]
    /\ UNCHANGED <<system, arg>>

NextClean ==
    \/ clean_call
    \/ clean_again

SpecClean == InitClean /\ [][NextClean]_vars

\* C21: normalizing a query that _clean_query returned gives it back
\* unchanged.
C21_Idempotent == ret.calls = 2 => ret.value = ret.first

====
